---- MODULE Spec2Model ----
(***************************************************************************)
(* Model of the image-generation proxy:                                    *)
(*   - ImageGenerationService.generate and its fallback / retry chain      *)
(*     (src/src/services/image_generation_service.py), specification Spec; *)
(*   - ImageGenerationService.generate_batch, the semaphore-bounded batch  *)
(*     coordinator, specification SpecBatch;                               *)
(*   - the aspect-ratio engine (src/src/services/aspect_ratio_engine.py),  *)
(*     as operators used by generate and, applied to one target on their   *)
(*     own, specification SpecEngine.                                      *)
(* Strings of the program (ratio strings, error messages) are TLA+ strings *)
(* and are taken apart with Len / SubSeq, as the code takes them apart.    *)
(***************************************************************************)
EXTENDS Integers, Sequences, FiniteSets, TLC

VARIABLES
    \* ---- configuration of the service (ImageGenerationService.__init__)
    chain,                  \* <<primary_generator_type>> \o names of fallback_generators
    enable_fallback,        \* self.enable_fallback
    max_retries,            \* self.max_retries
    semantic_cache_enabled, \* self.semantic_cache_enabled and self.semantic_cache
    \* ---- the request handed to generate
    request,                \* [aspect_ratio, metadata, remove_bg, store_in_cloud]
    \* ---- position and locals of one generate call
    pc,                     \* position in generate
    gen,                    \* index in chain of the generator being tried
    attempt,                \* loop variable of _try_generator_with_retry
    last_error,             \* last_error of _try_generator_with_retry
    attempted,              \* attempted of _generate_with_fallback
    fb_last_error,          \* last_error of _generate_with_fallback
    generation_result,      \* what _generate_with_fallback returned
    locals,                 \* source_ratio, requires_crop, cropped, transparent, urls
    response,               \* the ImageGenerationResponse returned, or NoResponse
    trace,                  \* calls made to the collaborators, in order
    \* ---- generate_batch
    max_concurrent,         \* batch_request.max_concurrent
    n_requests,             \* len(batch_request.requests)
    semaphore,              \* free permits of asyncio.Semaphore(max_concurrent)
    task_pc,                \* position of each generate_with_limit task
    task_backoffs,          \* backoff delays slept by the pipeline running in each task
    task_result,            \* what each task returned
    generate_outcome,       \* what self.generate did in each task
    finished,               \* indices of the tasks in completion order
    next_uuid,              \* uuid.uuid4() as a fresh-number source
    batch_response,         \* the BatchImageGenerationResponse, or NoResponse
    \* ---- the aspect-ratio engine called on its own
    engine_pc,              \* which of the engine's functions have been applied
    engine_target,          \* the target ratio string handed to the engine
    selected,               \* what select_source_ratio(engine_target) did
    strategy_result,        \* what get_aspect_ratio_strategy(engine_target) did
    crop_args,              \* source_size, target_ratio, anchor of calculate_crop_box
    crop_box,               \* what calculate_crop_box returned
    \* ---- LayoutGenerationService.generate requests on one presentation
    enable_credits,         \* self.enable_credits and self.credits
    total_credits,          \* presentation_credits.total_credits of the presentation
    used_credits,           \* presentation_credits.used_credits of the presentation
    layout_pc,              \* position of each generate request
    layout_quality,         \* request.config.quality of each request
    layout_response,        \* the LayoutImageGenerateResponse of each request
    layout_deducted,        \* what each request's deduct_credits added to used_credits
    db_failed               \* whether a call to the database has raised

orchVars == <<chain, enable_fallback, max_retries, semantic_cache_enabled, request,
              pc, gen, attempt, last_error, attempted, fb_last_error,
              generation_result, locals, response, trace>>

batchVars == <<max_concurrent, n_requests, semaphore, task_pc, task_backoffs, task_result,
               generate_outcome, finished, next_uuid, batch_response>>

engineVars == <<engine_pc, engine_target, selected, strategy_result, crop_args, crop_box>>

creditVars == <<enable_credits, total_credits, used_credits, layout_pc, layout_quality,
                layout_response, layout_deducted, db_failed>>

vars == <<orchVars, batchVars, engineVars, creditVars>>

-----------------------------------------------------------------------------
(* Bounds of the model *)

\* largest configured max_retries explored
MaxRetriesBound == 2

\* largest batch explored
MaxBatch == 3

\* largest max_concurrent explored
MaxConcurrentBound == 2

-----------------------------------------------------------------------------
(* Program constants *)

\* fallback_similarity_threshold default, in hundredths
FallbackSimilarityThreshold == 70

\* SemanticImageCacheService.DEFAULT_SIMILARITY_THRESHOLD, in hundredths
DEFAULT_SIMILARITY_THRESHOLD == 85

\* max_retries=1 handed to every fallback generator
FallbackMaxRetries == 1

\* retry_delay_base default (1.0 second)
RetryDelayBase == 1

None == "None"
NoResponse == [success |-> "none"]

-----------------------------------------------------------------------------
(* String helpers: Python's str.lower, `in`, str.split, int() *)

UpperLetters == "ABCDEFGHIJKLMNOPQRSTUVWXYZ"
LowerLetters == "abcdefghijklmnopqrstuvwxyz"

CharAt(s, i) == SubSeq(s, i, i)

LowerChar(c) ==
    IF \E k \in 1..26 : CharAt(UpperLetters, k) = c
    THEN CharAt(LowerLetters, CHOOSE k \in 1..26 : CharAt(UpperLetters, k) = c)
    ELSE c

RECURSIVE StrLower(_)
StrLower(s) ==
    IF Len(s) = 0 THEN ""
    ELSE LowerChar(CharAt(s, 1)) \o StrLower(SubSeq(s, 2, Len(s)))

\* Python: pattern in s
StrContains(s, pattern) ==
    \E i \in 1..(Len(s) - Len(pattern) + 1) :
        SubSeq(s, i, i + Len(pattern) - 1) = pattern

\* Python: s.split(sep) for a one-character sep
RECURSIVE StrSplitFrom(_, _, _, _)
StrSplitFrom(s, sep, i, cur) ==
    IF i > Len(s) THEN <<cur>>
    ELSE IF CharAt(s, i) = sep
         THEN <<cur>> \o StrSplitFrom(s, sep, i + 1, "")
         ELSE StrSplitFrom(s, sep, i + 1, cur \o CharAt(s, i))

StrSplit(s, sep) == StrSplitFrom(s, sep, 1, "")

DigitChars == "0123456789"

IsDigit(c) == \E d \in 0..9 : CharAt(DigitChars, d + 1) = c

DigitVal(c) == CHOOSE d \in 0..9 : CharAt(DigitChars, d + 1) = c

\* Python: s.strip() (blanks only)
RECURSIVE StrStrip(_)
StrStrip(s) ==
    IF Len(s) = 0 THEN s
    ELSE IF CharAt(s, 1) = " " THEN StrStrip(SubSeq(s, 2, Len(s)))
    ELSE IF CharAt(s, Len(s)) = " " THEN StrStrip(SubSeq(s, 1, Len(s) - 1))
    ELSE s

RECURSIVE DigitsValue(_, _)
DigitsValue(s, acc) ==
    IF Len(s) = 0 THEN acc
    ELSE DigitsValue(SubSeq(s, 2, Len(s)), 10 * acc + DigitVal(CharAt(s, 1)))

AllDigits(s) == Len(s) > 0 /\ \A i \in 1..Len(s) : IsDigit(CharAt(s, i))

\* Python: int(s); ok = FALSE stands for ValueError
PyInt(s) ==
    LET t == StrStrip(s)
        signed == Len(t) > 0 /\ CharAt(t, 1) \in {"-", "+"}
        body == IF signed THEN SubSeq(t, 2, Len(t)) ELSE t
    IN  IF AllDigits(body)
        THEN [ok |-> TRUE,
              val |-> IF signed /\ CharAt(t, 1) = "-"
                      THEN 0 - DigitsValue(body, 0) ELSE DigitsValue(body, 0)]
        ELSE [ok |-> FALSE, val |-> 0]

-----------------------------------------------------------------------------
(* Aspect-ratio engine *)

\* IMAGEN_SUPPORTED_RATIOS, in the dict's insertion order
SupportedKeys == <<"1:1", "3:4", "4:3", "9:16", "16:9">>

IMAGEN_SUPPORTED_RATIOS(key) ==
    CASE key = "1:1"  -> <<1, 1>>
      [] key = "3:4"  -> <<3, 4>>
      [] key = "4:3"  -> <<4, 3>>
      [] key = "9:16" -> <<9, 16>>
      [] key = "16:9" -> <<16, 9>>

\* width, height = map(int, ratio_str.split(':')); ok = FALSE stands for ValueError
parse_aspect_ratio(ratio_str) ==
    LET parts == StrSplit(ratio_str, ":")
    IN  IF Len(parts) = 2 /\ PyInt(parts[1]).ok /\ PyInt(parts[2]).ok
        THEN [ok |-> TRUE, ratio |-> <<PyInt(parts[1]).val, PyInt(parts[2]).val>>]
        ELSE [ok |-> FALSE, ratio |-> <<0, 0>>]

is_imagen_supported(ratio_str) ==
    \E k \in 1..Len(SupportedKeys) : SupportedKeys[k] = ratio_str

\* a decimal w/h is kept as the pair <<w, h>> with h > 0
Norm(r) == IF r[2] < 0 THEN <<0 - r[1], 0 - r[2]>> ELSE r

Abs(x) == IF x < 0 THEN 0 - x ELSE x

RatLE(a, b) == a[1] * b[2] <= b[1] * a[2]

RatLT(a, b) == a[1] * b[2] < b[1] * a[2]

\* abs(a - b) as a pair
RatAbsDiff(a, b) == <<Abs(a[1] * b[2] - b[1] * a[2]), a[2] * b[2]>>

Inf == <<1, 0>>

\* every containing candidate taken, the last one winning
WasteAny(w, min_waste) == TRUE

\* if waste < min_waste
WasteLT(w, min_waste) == min_waste = Inf \/ RatLT(w, min_waste)

\* the orientation of the target ignored
CanContainAsLandscape(is_portrait, candidate_decimal, target_decimal) ==
    RatLE(target_decimal, candidate_decimal)

\* can_contain: portrait, candidate <= target; otherwise candidate >= target
CanContain(is_portrait, candidate_decimal, target_decimal) ==
    IF is_portrait
    THEN RatLE(candidate_decimal, target_decimal)
    ELSE RatLE(target_decimal, candidate_decimal)

\* the square ratio as the starting choice of every target
FirstCandidateSquare(is_square, is_portrait) == "1:1"

\* best_ratio = candidates[0]
FirstCandidate(is_square, is_portrait) ==
    IF is_square THEN "1:1"
    ELSE IF is_portrait THEN "9:16" ELSE "16:9"

\* the for loop of select_source_ratio over IMAGEN_SUPPORTED_RATIOS.keys()
RECURSIVE SelectLoop(_, _, _, _, _)
SelectLoop(k, target_decimal, is_portrait, best_ratio, min_waste) ==
    IF k > Len(SupportedKeys) THEN best_ratio
    ELSE LET candidate_str == SupportedKeys[k]
             candidate_decimal == IMAGEN_SUPPORTED_RATIOS(candidate_str)
             can_contain == CanContain(is_portrait, candidate_decimal, target_decimal)
             waste == RatAbsDiff(candidate_decimal, target_decimal)
         IN  IF can_contain /\ WasteLT(waste, min_waste)
             THEN SelectLoop(k + 1, target_decimal, is_portrait, candidate_str, waste)
             ELSE SelectLoop(k + 1, target_decimal, is_portrait, best_ratio, min_waste)

\* exc: "" (returned), "ValueError" or "ZeroDivisionError"
select_source_ratio(target_ratio_str) ==
    IF is_imagen_supported(target_ratio_str)
    THEN [exc |-> "", value |-> target_ratio_str]
    ELSE LET parsed == parse_aspect_ratio(target_ratio_str)
         IN  IF ~parsed.ok THEN [exc |-> "ValueError", value |-> ""]
             ELSE IF parsed.ratio[2] = 0 THEN [exc |-> "ZeroDivisionError", value |-> ""]
             ELSE LET target_decimal == Norm(parsed.ratio)
                      is_portrait == RatLT(target_decimal, <<1, 1>>)
                      is_square == RatLT(RatAbsDiff(target_decimal, <<1, 1>>), <<1, 100>>)
                      first == FirstCandidate(is_square, is_portrait)
                  IN  [exc |-> "",
                       value |-> SelectLoop(1, target_decimal, is_portrait, first, Inf)]

\* every target sent through the selector and the crop
get_aspect_ratio_strategy_always_crop(target_ratio_str) ==
    LET parsed == parse_aspect_ratio(target_ratio_str)
    IN  IF ~parsed.ok
        THEN [exc |-> "ValueError", source_ratio |-> "", requires_crop |-> FALSE,
              target_ratio |-> <<0, 0>>]
        ELSE LET source == select_source_ratio(target_ratio_str)
             IN  [exc |-> source.exc, source_ratio |-> source.value,
                  requires_crop |-> TRUE, target_ratio |-> parsed.ratio]

\* the plan asking the generator for the target itself
get_aspect_ratio_strategy_target_as_source(target_ratio_str) ==
    LET parsed == parse_aspect_ratio(target_ratio_str)
    IN  IF ~parsed.ok
        THEN [exc |-> "ValueError", source_ratio |-> "", requires_crop |-> FALSE,
              target_ratio |-> <<0, 0>>]
        ELSE [exc |-> "", source_ratio |-> target_ratio_str,
              requires_crop |-> ~is_imagen_supported(target_ratio_str),
              target_ratio |-> parsed.ratio]

get_aspect_ratio_strategy(target_ratio_str) ==
    LET parsed == parse_aspect_ratio(target_ratio_str)
    IN  IF ~parsed.ok
        THEN [exc |-> "ValueError", source_ratio |-> "", requires_crop |-> FALSE,
              target_ratio |-> <<0, 0>>]
        ELSE IF is_imagen_supported(target_ratio_str)
        THEN [exc |-> "", source_ratio |-> target_ratio_str, requires_crop |-> FALSE,
              target_ratio |-> parsed.ratio]
        ELSE LET source == select_source_ratio(target_ratio_str)
             IN  [exc |-> source.exc, source_ratio |-> source.value,
                  requires_crop |-> TRUE, target_ratio |-> parsed.ratio]

-----------------------------------------------------------------------------
(* calculate_crop_box.  target_decimal = w/h is a double, and the code truncates *)
(* source_width / target_decimal and source_height * target_decimal: the         *)
(* operators below give the value int() returns for these doubles, computed with *)
(* integers from the rounding error of w/h.                                      *)

IsPow2(n) == \E k \in 0..30 : n = 2 ^ k

RECURSIVE Gcd(_, _)
Gcd(a, b) == IF b = 0 THEN a ELSE Gcd(b, a % b)

\* the e with 2^e <= n/d < 2^(e+1): the exponent of the double n/d
RECURSIVE FloorLog2(_, _)
FloorLog2(n, d) ==
    IF n >= 2 * d THEN FloorLog2(n, 2 * d) + 1
    ELSE IF n < d THEN FloorLog2(2 * n, d) - 1
    ELSE 0

\* the j with 2^j < n <= 2^(j+1): doubles just below n are 2^(j-52) apart
RECURSIVE BinadeBelow(_, _)
BinadeBelow(n, j) == IF 2 ^ (j + 1) < n THEN BinadeBelow(n, j + 1) ELSE j

RECURSIVE Pow2Mod(_, _)
Pow2Mod(k, h) == IF k = 0 THEN 1 % h ELSE (2 * Pow2Mod(k - 1, h)) % h

\* w/h (lowest terms, h not a power of two) as a double is M * 2^(-k) with
\* k = 52 - e and M the integer nearest to w * 2^k / h; err = h*M - w*2^k
RoundingError(w, h) ==
    LET e == FloorLog2(w, h)
        r == ((w % h) * Pow2Mod(52 - e, h)) % h
    IN  [e |-> e, err |-> IF 2 * r < h THEN 0 - r ELSE h - r]

\* whether a double that should be the integer q falls on the double below it
RoundsBelow(q, w, e, err) ==
    LET d == 1 + e - BinadeBelow(q, -1)
    IN  err * q * (IF d > 0 THEN 2 ^ d ELSE 1) > w * (IF d < 0 THEN 2 ^ (0 - d) ELSE 1)

\* the quotient taken where the product belongs
IntOfQuotientInverted(s, w0, h0) == (s * w0) \div h0

\* int(s / (w / h)) for positive s, w, h
IntOfQuotient(s, w0, h0) ==
    LET g == Gcd(w0, h0)
        w == w0 \div g
        h == h0 \div g
        q == (s * h) \div w
    IN  IF (s * h) % w # 0 \/ IsPow2(h) THEN q
        ELSE LET re == RoundingError(w, h)
             IN  IF re.err > 0 /\ RoundsBelow(q, w, re.e, re.err) THEN q - 1 ELSE q

\* int(s * (w / h)) for positive s, w, h
IntOfProduct(s, w0, h0) ==
    LET g == Gcd(w0, h0)
        w == w0 \div g
        h == h0 \div g
        q == (s * w) \div h
    IN  IF (s * w) % h # 0 \/ IsPow2(h) THEN q
        ELSE LET re == RoundingError(w, h)
             IN  IF re.err < 0 /\ RoundsBelow(q, w, re.e, 0 - re.err) THEN q - 1 ELSE q

\* a negative target_decimal gives the same magnitudes with the sign changed
SignOf(w, h) == IF (w < 0) = (h < 0) THEN 1 ELSE 0 - 1

\* the refit by height forgotten: always fitted to the source width
FittedSizeByWidthOnly(source_size, target_ratio) ==
    <<source_size[1],
      SignOf(target_ratio[1], target_ratio[2])
        * ((source_size[1] * Abs(target_ratio[2])) \div Abs(target_ratio[1]))>>

\* new_width, new_height of calculate_crop_box (lines 149-157)
FittedSize(source_size, target_ratio) ==
    LET source_width == source_size[1]
        source_height == source_size[2]
        w == Abs(target_ratio[1])
        h == Abs(target_ratio[2])
        sign == SignOf(target_ratio[1], target_ratio[2])
        by_width == sign * IntOfQuotient(source_width, w, h)
    IN  IF by_width > source_height
        THEN <<sign * IntOfProduct(source_height, w, h), source_height>>
        ELSE <<source_width, by_width>>

\* the anchors of CropAnchor, and one that is none of them
Anchors == {"center", "top", "bottom", "left", "right", "smart", "middle"}

\* the vertical pins taken for the horizontal ones
AnchorOffsetPinsSwapped(anchor, source_width, source_height, new_width, new_height) ==
    CASE anchor = "top"    -> <<0, (source_height - new_height) \div 2>>
      [] anchor = "bottom" -> <<source_width - new_width, (source_height - new_height) \div 2>>
      [] anchor = "left"   -> <<(source_width - new_width) \div 2, 0>>
      [] anchor = "right"  -> <<(source_width - new_width) \div 2, source_height - new_height>>
      [] OTHER             -> <<(source_width - new_width) \div 2,
                                (source_height - new_height) \div 2>>

\* smart and the else branch pinned to the top left corner
AnchorOffsetStrict(anchor, source_width, source_height, new_width, new_height) ==
    CASE anchor = "center" -> <<(source_width - new_width) \div 2,
                                (source_height - new_height) \div 2>>
      [] anchor = "top"    -> <<(source_width - new_width) \div 2, 0>>
      [] anchor = "bottom" -> <<(source_width - new_width) \div 2, source_height - new_height>>
      [] anchor = "left"   -> <<0, (source_height - new_height) \div 2>>
      [] anchor = "right"  -> <<source_width - new_width, (source_height - new_height) \div 2>>
      [] anchor = "smart"  -> <<0, 0>>
      [] OTHER             -> <<0, 0>>

\* left, top for each anchor (lines 160-190): six branches and the else
AnchorOffset(anchor, source_width, source_height, new_width, new_height) ==
    CASE anchor = "center" -> <<(source_width - new_width) \div 2,
                                (source_height - new_height) \div 2>>
      [] anchor = "top"    -> <<(source_width - new_width) \div 2, 0>>
      [] anchor = "bottom" -> <<(source_width - new_width) \div 2, source_height - new_height>>
      [] anchor = "left"   -> <<0, (source_height - new_height) \div 2>>
      [] anchor = "right"  -> <<source_width - new_width, (source_height - new_height) \div 2>>
      [] anchor = "smart"  -> <<(source_width - new_width) \div 2,
                                (source_height - new_height) \div 2>>
      [] OTHER             -> <<(source_width - new_width) \div 2,
                                (source_height - new_height) \div 2>>

\* exc: "" (returned) or "ZeroDivisionError"; box = <<left, top, right, bottom>>
calculate_crop_box(source_size, target_ratio, anchor) ==
    IF target_ratio[1] = 0 \/ target_ratio[2] = 0
    THEN [exc |-> "ZeroDivisionError", box |-> <<0, 0, 0, 0>>]
    ELSE LET source_width == source_size[1]
             source_height == source_size[2]
             fitted == FittedSize(source_size, target_ratio)
             new_width == fitted[1]
             new_height == fitted[2]
             offset == AnchorOffset(anchor, source_width, source_height, new_width, new_height)
             left == offset[1]
             top == offset[2]
         IN  [exc |-> "", box |-> <<left, top, left + new_width, top + new_height>>]

-----------------------------------------------------------------------------
(* Error classification *)

\* retryable_patterns of _is_retryable_error
retryable_patterns ==
    <<"429", "rate limit", "quota", "exceeded",
      "503", "service unavailable", "unavailable",
      "timeout", "timed out",
      "connection", "network",
      "temporarily", "try again",
      "overloaded", "capacity">>

is_retryable_error(error) ==
    LET error_lower == StrLower(error)
    IN  \E k \in 1..Len(retryable_patterns) :
            StrContains(error_lower, retryable_patterns[k])

-----------------------------------------------------------------------------
(* Inputs: what the collaborators can answer *)

\* error strings the generators return (gemini_image_service._handle_error's
\* f"Gemini error: {error_msg}"): one transient, one a rejection of the request
ErrorMessages ==
    { "Gemini error: 503 Service Unavailable",
      "Gemini error: violates content policy" }

\* str(e) of exceptions raised by a generator
ExceptionMessages == { "content policy violation" }

\* last_error = result.get("error", "Unknown error"), or str(e)
ResultError(outcome) == outcome.error

GeneratorOutcomes ==
    {[kind |-> "success", error |-> None]}
    \cup {[kind |-> "failure", error |-> m] : m \in ErrorMessages}
    \cup {[kind |-> "raise", error |-> m] : m \in ExceptionMessages}

\* generator chains ImageGenerationService.__init__ can build
Chains ==
    { <<>>, <<"custom">>, <<"gemini">>, <<"imagen-fast">>,
      <<"gemini", "imagen-fast">>, <<"imagen-fast", "imagen-regular">>,
      <<"gemini", "imagen-fast", "imagen-regular">> }

\* request.metadata: which of the cache keys are present and non-empty
FullMetadata == [topics |-> TRUE, visual_style |-> TRUE, slide_type |-> TRUE]

PartialMetadata == [topics |-> TRUE, visual_style |-> TRUE, slide_type |-> FALSE]

\* the requests explored: a native ratio with the default options, a custom ratio
\* with background removal, a custom ratio kept out of the cloud and of the cache,
\* and a ratio that does not parse
Requests ==
    { [aspect_ratio |-> "16:9", metadata |-> FullMetadata,
       remove_bg |-> FALSE, store_in_cloud |-> TRUE],
      [aspect_ratio |-> "2:7", metadata |-> FullMetadata,
       remove_bg |-> TRUE, store_in_cloud |-> TRUE],
      [aspect_ratio |-> "2:7", metadata |-> PartialMetadata,
       remove_bg |-> FALSE, store_in_cloud |-> FALSE],
      [aspect_ratio |-> "7", metadata |-> FullMetadata,
       remove_bg |-> FALSE, store_in_cloud |-> TRUE] }

-----------------------------------------------------------------------------
(* Responses *)

Response(success, source, cache_hit, cache_fallback, gen_result, error) ==
    [success |-> success, source |-> source, cache_hit |-> cache_hit,
     cache_fallback |-> cache_fallback,
     generator_used |-> gen_result.generator_used,
     fallback_used |-> gen_result.fallback_used,
     generators_attempted |-> gen_result.generators_attempted,
     error |-> error]

NoGeneration ==
    [success |-> FALSE, error |-> None, generator_used |-> None,
     fallback_used |-> FALSE, generators_attempted |-> <<>>]

\* generate, lines 223-238
CacheHitResponse == Response(TRUE, "semantic_cache", TRUE, FALSE, NoGeneration, None)

\* the fallback hit reported like a pre-generation cache hit
CacheFallbackResponseUnmarked(gen_result) ==
    Response(TRUE, "semantic_cache", TRUE, FALSE,
             [gen_result EXCEPT !.generator_used = None], None)

\* generate, lines 265-282
CacheFallbackResponse(gen_result) ==
    Response(TRUE, "semantic_cache_fallback", TRUE, TRUE,
             [gen_result EXCEPT !.generator_used = None], None)

\* generate, lines 285-293
FinalFailureResponse(gen_result) ==
    Response(FALSE, "failed", FALSE, FALSE,
             [gen_result EXCEPT !.generator_used = None], gen_result.error)

\* generate, lines 389-395
SuccessResponse(gen_result) == Response(TRUE, "generated", FALSE, FALSE, gen_result, None)

\* the except clause missing: the exception leaves generate
HandleExceptionReraise(e) == [pc |-> "raised", response |-> NoResponse]

\* generate, lines 441-448: the except clause around the whole body
HandleException(e) ==
    [pc |-> "done", response |-> Response(FALSE, "exception", FALSE, FALSE, NoGeneration, e)]

-----------------------------------------------------------------------------
(* _try_generator_with_retry and _generate_with_fallback *)

\* max_retries handed to _try_generator_with_retry for chain[g]
\* the generators of the chain after the primary
NumFallbacks == IF Len(chain) > 1 THEN Len(chain) - 1 ELSE 0

\* the fallbacks given the budget of the primary
RetryBudgetOfPrimary(g) == max_retries

\* max_retries of the call of _try_generator_with_retry: self.max_retries for the
\* primary, 1 for a fallback
RetryBudget(g) == IF g = 1 THEN max_retries ELSE FallbackMaxRetries

\* every failure retried, classified or not
BreaksLoopNever(outcome) == FALSE

\* _is_retryable_error on every message a generator can return, computed once
RetryableOf == [m \in {ResultError(o) : o \in GeneratorOutcomes} |-> is_retryable_error(m)]

\* the message of an exception classified like a returned error
BreaksLoopClassifiesExceptions(outcome) == ~RetryableOf[ResultError(outcome)]

\* whether the loop goes on to its backoff/next iteration after a failed attempt:
\* a returned error that is not retryable breaks; an exception never breaks
BreaksLoop(outcome) == outcome.kind = "failure" /\ ~RetryableOf[ResultError(outcome)]

\* off by one: a delay after the last attempt too, and one attempt more
SleepsAfterInclusive(a, budget) == a <= budget

\* if attempt < max_retries: await asyncio.sleep(delay)
SleepsAfter(a, budget) == a < budget

\* delay = (2 ** attempt) * self.retry_delay_base
BackoffDelay(a) == (2 ^ a) * RetryDelayBase

\* the loop over the fallbacks stopping one short
HasNextGeneratorSkipLast(g) == enable_fallback /\ g < Len(chain) - 1

\* the generators _generate_with_fallback still has to try after chain[g]
HasNextGenerator(g) == enable_fallback /\ g < Len(chain)

\* the lookup made with the cache's default threshold
CacheFallbackThresholdDefault == DEFAULT_SIMILARITY_THRESHOLD

\* threshold handed to find_similar_image by _try_cache_fallback
CacheFallbackThreshold == FallbackSimilarityThreshold

\* the guard of _check_semantic_cache, _try_cache_fallback, _store_in_semantic_cache
CacheUsable(req) ==
    /\ semantic_cache_enabled
    /\ req.metadata.topics /\ req.metadata.visual_style /\ req.metadata.slide_type

\* one entry of trace: a call to a collaborator and how it ended
Call(name, generator, a, arg, result, error) ==
    [call |-> name, generator |-> generator, attempt |-> a, arg |-> arg,
     result |-> result, error |-> error]

\* the terminal failure without its diagnosis
AllGeneratorsFailedNoDetail(names, err) ==
    [success |-> FALSE, error |-> "All generators failed",
     generator_used |-> None, fallback_used |-> FALSE, generators_attempted |-> <<>>]

\* _generate_with_fallback, lines 721-727
AllGeneratorsFailed(names, err) ==
    [success |-> FALSE, error |-> "All generators failed. Last error: " \o err,
     generator_used |-> None, fallback_used |-> FALSE, generators_attempted |-> names]

\* only the winner listed, the failed generators forgotten
GeneratorSucceededOnlyWinner(g, names) ==
    [success |-> TRUE, error |-> None, generator_used |-> chain[g],
     fallback_used |-> (g # 1), generators_attempted |-> <<chain[g]>>]

\* _generate_with_fallback, lines 688-692 and 711-716
GeneratorSucceeded(g, names) ==
    [success |-> TRUE, error |-> None, generator_used |-> chain[g],
     fallback_used |-> (g # 1), generators_attempted |-> names]

-----------------------------------------------------------------------------
(* ImageGenerationService.generate: one action per await / collaborator call *)

NoLocals ==
    [source_ratio |-> "", requires_crop |-> FALSE, cropped |-> FALSE,
     transparent |-> FALSE, urls |-> FALSE]

\* the engine not called on its own
NoSelection == [exc |-> "", value |-> ""]

NoStrategy ==
    [exc |-> "", source_ratio |-> "", requires_crop |-> FALSE, target_ratio |-> <<0, 0>>]

NoCropArgs == [source_size |-> <<0, 0>>, target_ratio |-> <<0, 0>>, anchor |-> ""]

NoCropBox == [exc |-> "", box |-> <<0, 0, 0, 0>>]

InitCreditsIdle ==
    /\ enable_credits = FALSE
    /\ total_credits = 0
    /\ used_credits = 0
    /\ layout_pc = <<>>
    /\ layout_quality = <<>>
    /\ layout_response = <<>>
    /\ layout_deducted = <<>>
    /\ db_failed = FALSE

InitEngineIdle ==
    /\ engine_pc = "idle"
    /\ engine_target = ""
    /\ selected = NoSelection
    /\ strategy_result = NoStrategy
    /\ crop_args = NoCropArgs
    /\ crop_box = NoCropBox

InitBatchIdle ==
    /\ max_concurrent = 1
    /\ n_requests = 0
    /\ semaphore = 1
    /\ task_pc = <<>>
    /\ task_backoffs = <<>>
    /\ task_result = <<>>
    /\ generate_outcome = <<>>
    /\ finished = <<>>
    /\ next_uuid = 1
    /\ batch_response = NoResponse

Init ==
    /\ chain \in Chains
    /\ enable_fallback \in BOOLEAN
    /\ (~enable_fallback => Len(chain) <= 1)
    /\ max_retries \in 0..MaxRetriesBound
    /\ semantic_cache_enabled \in BOOLEAN
    /\ request \in Requests
    /\ pc = "check_cache"
    /\ gen = 1
    /\ attempt = 0
    /\ last_error = None
    /\ attempted = <<>>
    /\ fb_last_error = None
    /\ generation_result = NoGeneration
    /\ locals = NoLocals
    /\ response = NoResponse
    /\ trace = <<>>
    /\ InitBatchIdle
    /\ InitEngineIdle
    /\ InitCreditsIdle

\* an exception reaching the except clause of generate
Raise(e) ==
    /\ pc' = HandleException(e).pc
    /\ response' = HandleException(e).response

\* Step 0: _check_semantic_cache and the cache-hit return
CheckSemanticCache ==
    /\ pc = "check_cache"
    /\ IF ~CacheUsable(request)
       THEN /\ pc' = "strategy"
            /\ UNCHANGED <<response, trace>>
       ELSE \E cached \in {"hit", "miss", "raise"} :
              /\ trace' = Append(trace, Call("check_cache", None, 0,
                                               DEFAULT_SIMILARITY_THRESHOLD, "", None))
              /\ IF cached = "hit"
                 THEN pc' = "done" /\ response' = CacheHitResponse
                 ELSE pc' = "strategy" /\ UNCHANGED response
    /\ UNCHANGED <<chain, enable_fallback, max_retries, semantic_cache_enabled, request,
                   gen, attempt, last_error, attempted, fb_last_error,
                   generation_result, locals, batchVars, engineVars, creditVars>>

\* Step 1: get_aspect_ratio_strategy, and the entry of _generate_with_fallback
GetAspectRatioStrategy ==
    /\ pc = "strategy"
    /\ LET strategy == get_aspect_ratio_strategy(request.aspect_ratio)
       IN  IF strategy.exc = "ValueError"
           THEN /\ Raise("Invalid aspect ratio format: " \o request.aspect_ratio)
                /\ UNCHANGED <<locals, generation_result>>
           ELSE IF strategy.exc # ""
           THEN /\ Raise(strategy.exc)
                /\ UNCHANGED <<locals, generation_result>>
           ELSE /\ locals' = [locals EXCEPT !.source_ratio = strategy.source_ratio,
                                            !.requires_crop = strategy.requires_crop]
                /\ IF Len(chain) = 0
                   THEN /\ pc' = "cache_fallback"
                        /\ generation_result' = AllGeneratorsFailed(<<>>, None)
                   ELSE /\ pc' = "generate"
                        /\ UNCHANGED generation_result
                /\ UNCHANGED response
    /\ UNCHANGED <<chain, enable_fallback, max_retries, semantic_cache_enabled, request,
                   gen, attempt, last_error, attempted, fb_last_error, trace, batchVars, engineVars, creditVars>>

\* _try_generator_with_retry gave up on chain[gen] with error err:
\* _generate_with_fallback records it and moves on
GeneratorFailed(err) ==
    /\ attempted' = Append(attempted, chain[gen])
    /\ fb_last_error' = err
    /\ last_error' = None
    /\ attempt' = 0
    /\ IF HasNextGenerator(gen)
       THEN /\ gen' = gen + 1
            /\ pc' = "generate"
            /\ UNCHANGED generation_result
       ELSE /\ pc' = "cache_fallback"
            /\ generation_result' = AllGeneratorsFailed(Append(attempted, chain[gen]), err)
            /\ UNCHANGED gen

\* Step 2: one generator.generate_image call of the retry loop
GenerateImage ==
    /\ pc = "generate"
    /\ \E outcome \in GeneratorOutcomes :
         /\ trace' = Append(trace, Call("generate_image", chain[gen], attempt,
                                        locals.source_ratio, outcome.kind,
                                        ResultError(outcome)))
         /\ IF outcome.kind = "success"
            THEN /\ attempted' = Append(attempted, chain[gen])
                 /\ generation_result' = GeneratorSucceeded(gen, Append(attempted, chain[gen]))
                 /\ pc' = "postprocess"
                 /\ UNCHANGED <<gen, attempt, last_error, fb_last_error>>
            ELSE IF BreaksLoop(outcome)
            THEN GeneratorFailed(ResultError(outcome))
            ELSE IF SleepsAfter(attempt, RetryBudget(gen))
            THEN /\ last_error' = ResultError(outcome)
                 /\ pc' = "sleep"
                 /\ UNCHANGED <<gen, attempt, attempted, fb_last_error, generation_result>>
            ELSE GeneratorFailed(ResultError(outcome))
    /\ UNCHANGED <<chain, enable_fallback, max_retries, semantic_cache_enabled, request,
                   locals, response, batchVars, engineVars, creditVars>>

\* await asyncio.sleep(delay), then the next iteration of the retry loop
BackoffSleep ==
    /\ pc = "sleep"
    /\ trace' = Append(trace, Call("sleep", chain[gen], attempt, BackoffDelay(attempt), "", None))
    /\ attempt' = attempt + 1
    /\ pc' = "generate"
    /\ UNCHANGED <<chain, enable_fallback, max_retries, semantic_cache_enabled, request,
                   gen, last_error, attempted, fb_last_error, generation_result,
                   locals, response, batchVars, engineVars, creditVars>>

\* _try_cache_fallback and the two returns that follow it; record_hit catches its
\* own exceptions (semantic_cache_service.py, lines 345-358), so a match found is
\* always the match returned
TryCacheFallback ==
    /\ pc = "cache_fallback"
    /\ pc' = "done"
    /\ IF ~CacheUsable(request)
       THEN /\ response' = FinalFailureResponse(generation_result)
            /\ UNCHANGED trace
       ELSE \E cached \in {"hit", "miss", "raise"} :
              /\ trace' = Append(trace, Call("find_similar_image", None, 0,
                                               CacheFallbackThreshold, cached, None))
              /\ response' = IF cached = "hit"
                              THEN CacheFallbackResponse(generation_result)
                              ELSE FinalFailureResponse(generation_result)
    /\ UNCHANGED <<chain, enable_fallback, max_retries, semantic_cache_enabled, request,
                   gen, attempt, last_error, attempted, fb_last_error,
                   generation_result, locals, batchVars, engineVars, creditVars>>

\* Steps 3 to 7, which run without an await once the generator has answered:
\* crop_image_to_aspect_ratio (re-raises what goes wrong), remove_white_background
\* (returns its input when it fails), storage.upload_multiple_versions, the
\* response, and database.save_image_record inside its own try/except
PostProcess ==
    /\ pc = "postprocess"
    /\ \E cropped \in {"ok", "raise"}, upload_result \in {"success", "failure", "raise"},
          db_result \in {"success", "failure", "raise"} :
         IF locals.requires_crop /\ cropped = "raise"
         THEN Raise("cannot identify image file") /\ UNCHANGED locals
         ELSE IF request.store_in_cloud /\ upload_result = "raise"
         THEN Raise("storage unavailable") /\ UNCHANGED locals
         ELSE /\ locals' = [locals EXCEPT
                               !.cropped = locals.requires_crop,
                               !.transparent = request.remove_bg,
                               !.urls = request.store_in_cloud /\ upload_result = "success"]
              /\ IF request.store_in_cloud /\ upload_result = "success"
                 THEN pc' = "store_cache" /\ UNCHANGED response
                 ELSE pc' = "done" /\ response' = SuccessResponse(generation_result)
    /\ UNCHANGED <<chain, enable_fallback, max_retries, semantic_cache_enabled, request,
                   gen, attempt, last_error, attempted, fb_last_error,
                   generation_result, trace, batchVars, engineVars, creditVars>>

\* Step 8: _store_in_semantic_cache, then return response
StoreInSemanticCache ==
    /\ pc = "store_cache"
    /\ IF ~CacheUsable(request)
       THEN UNCHANGED trace
       ELSE \E stored \in {"ok", "raise"} :
              trace' = Append(trace, Call("cache_image", None, 0, 0, "", None))
    /\ pc' = "done"
    /\ response' = SuccessResponse(generation_result)
    /\ UNCHANGED <<chain, enable_fallback, max_retries, semantic_cache_enabled, request,
                   gen, attempt, last_error, attempted, fb_last_error,
                   generation_result, locals, batchVars, engineVars, creditVars>>

Next ==
    \/ CheckSemanticCache
    \/ GetAspectRatioStrategy
    \/ GenerateImage
    \/ BackoffSleep
    \/ TryCacheFallback
    \/ PostProcess
    \/ StoreInSemanticCache

Spec == Init /\ [][Next]_vars

\* every call awaited by the retry loop returns: generator.generate_image ends
\* (with an image, an error or an exception) and asyncio.sleep ends
SpecFair == Init /\ [][Next]_vars /\ WF_vars(GenerateImage) /\ WF_vars(BackoffSleep)

-----------------------------------------------------------------------------
(* ImageGenerationService.generate_batch *)

\* batch_request.requests[i].prompt: the requests of a batch are told apart by it
Prompt(i) == i

\* an ImageGenerationResponse as generate_batch sees it; a response built by
\* generate's success paths carries the request's prompt in its metadata
ItemResponse(success, image_id, prompt, error) ==
    [success |-> success, image_id |-> image_id, prompt |-> prompt, error |-> error]

\* how a task ended: it returned a response, or let an exception out
Returned(resp) == [kind |-> "returned", value |-> resp]

NoResult == [kind |-> "pending", value |-> ItemResponse(FALSE, 0, 0, None)]

\* what self.generate(request) can do, seen from generate_with_limit
GenerateOutcomes == {"returned_success", "returned_failure", "raised"}

\* the except clause missing: the exception leaves the task
TaskReturnUncaught(outcome, i, uuid) ==
    CASE outcome = "returned_success" ->
             Returned(ItemResponse(TRUE, uuid, Prompt(i), None))
      [] outcome = "returned_failure" ->
             Returned(ItemResponse(FALSE, uuid, 0, "All generators failed"))
      [] outcome = "raised" ->
             [kind |-> "raised", value |-> ItemResponse(FALSE, 0, 0, "unexpected error")]

\* generate_with_limit, lines 479-488: the value the task returns
TaskReturn(outcome, i, uuid) ==
    CASE outcome = "returned_success" ->
             Returned(ItemResponse(TRUE, uuid, Prompt(i), None))
      [] outcome = "returned_failure" ->
             Returned(ItemResponse(FALSE, uuid, 0, "All generators failed"))
      [] outcome = "raised" ->
             Returned(ItemResponse(FALSE, uuid, 0, "unexpected error"))

\* the limiter letting everyone in
CanAcquireAlways(permits) == TRUE

\* async with semaphore: a permit is taken only when one is free
CanAcquire(permits) == permits > 0

\* release written after the call instead of scoped: skipped by an exception
ReleaseUnlessRaised(permits, outcome) ==
    IF outcome = "raised" THEN permits ELSE permits + 1

\* leaving the async with block gives the permit back, however it is left
Release(permits, outcome) == permits + 1

\* results collected as the tasks complete
GatherResultsAsCompleted(results_of, order) ==
    [k \in 1..Len(order) |-> results_of[order[k]].value]

\* asyncio.gather(*tasks): the results in the order of the awaitables
GatherResults(results_of, order) == [i \in 1..Len(results_of) |-> results_of[i].value]

\* successful = sum(1 for r in results if r.success)
RECURSIVE CountSuccess(_)
CountSuccess(results) ==
    IF Len(results) = 0 THEN 0
    ELSE (IF Head(results).success = TRUE THEN 1 ELSE 0) + CountSuccess(Tail(results))

\* success taken from the successes instead of the failures
BatchResponseAnySuccess(results, total) ==
    LET successful == CountSuccess(results)
        failed == Len(results) - successful
    IN  [success |-> (successful > 0), total_requests |-> total,
         successful |-> successful, failed |-> failed, results |-> results]

\* generate_batch, lines 499-518
BatchResponse(results, total) ==
    LET successful == CountSuccess(results)
        failed == Len(results) - successful
    IN  [success |-> (failed = 0), total_requests |-> total,
         successful |-> successful, failed |-> failed, results |-> results]

InitOrchIdle ==
    /\ chain = <<>>
    /\ enable_fallback = FALSE
    /\ max_retries = 0
    /\ semantic_cache_enabled = FALSE
    /\ request = [aspect_ratio |-> "16:9",
                  metadata |-> [topics |-> FALSE, visual_style |-> FALSE, slide_type |-> FALSE],
                  remove_bg |-> FALSE, store_in_cloud |-> FALSE]
    /\ pc = "idle"
    /\ gen = 1
    /\ attempt = 0
    /\ last_error = None
    /\ attempted = <<>>
    /\ fb_last_error = None
    /\ generation_result = NoGeneration
    /\ locals = NoLocals
    /\ response = NoResponse
    /\ trace = <<>>

\* the service generate_batch runs on: a primary without fallbacks, no generate
\* call of its own in progress
InitOrchOfBatch ==
    /\ chain = <<"gemini">>
    /\ enable_fallback = FALSE
    /\ max_retries \in 0..MaxRetriesBound
    /\ semantic_cache_enabled = FALSE
    /\ request = [aspect_ratio |-> "16:9",
                  metadata |-> [topics |-> FALSE, visual_style |-> FALSE, slide_type |-> FALSE],
                  remove_bg |-> FALSE, store_in_cloud |-> FALSE]
    /\ pc = "idle"
    /\ gen = 1
    /\ attempt = 0
    /\ last_error = None
    /\ attempted = <<>>
    /\ fb_last_error = None
    /\ generation_result = NoGeneration
    /\ locals = NoLocals
    /\ response = NoResponse
    /\ trace = <<>>

\* delays one pipeline can sleep: max_retries for the primary and one for each
\* fallback (if attempt < max_retries, with max_retries=1 for a fallback)
SleepBudget == max_retries + FallbackMaxRetries * NumFallbacks

\* a blocking sleep: nothing else runs on the event loop while a pipeline sleeps
EventLoopBlockedBySleep(pcs) == \E j \in DOMAIN pcs : pcs[j] = "backoff"

\* await asyncio.sleep(delay) suspends only the task that awaits it
EventLoopBlocked(pcs) == FALSE

\* generate_batch is entered with its semaphore full and one task per request;
\* max_concurrent is at least 1 ("Configurable concurrency (1-10)", src/src/main.py)
InitBatch ==
    /\ InitOrchOfBatch
    /\ max_concurrent \in 1..MaxConcurrentBound
    /\ n_requests \in 0..MaxBatch
    /\ semaphore = max_concurrent
    /\ task_pc = [i \in 1..n_requests |-> "waiting"]
    /\ task_backoffs = [i \in 1..n_requests |-> 0]
    /\ task_result = [i \in 1..n_requests |-> NoResult]
    /\ generate_outcome = [i \in 1..n_requests |-> "pending"]
    /\ finished = <<>>
    /\ next_uuid = 1
    /\ batch_response = NoResponse
    /\ InitEngineIdle
    /\ InitCreditsIdle

\* async with semaphore (line 476), up to the call of self.generate
Acquire(i) ==
    /\ batch_response = NoResponse
    /\ i \in 1..n_requests
    /\ task_pc[i] = "waiting"
    /\ ~EventLoopBlocked(task_pc)
    /\ CanAcquire(semaphore)
    /\ semaphore' = semaphore - 1
    /\ task_pc' = [task_pc EXCEPT ![i] = "running"]
    /\ UNCHANGED <<max_concurrent, n_requests, task_backoffs, task_result, generate_outcome, finished,
                   next_uuid, batch_response, orchVars, engineVars, creditVars>>

\* self.generate returns or raises, the task returns its response and the
\* async with block is left (lines 479-488)
GenerateReturns(i) ==
    /\ batch_response = NoResponse
    /\ i \in 1..n_requests
    /\ task_pc[i] = "running"
    /\ ~EventLoopBlocked(task_pc)
    /\ \E outcome \in GenerateOutcomes :
         /\ generate_outcome' = [generate_outcome EXCEPT ![i] = outcome]
         /\ task_result' = [task_result EXCEPT ![i] = TaskReturn(outcome, i, next_uuid)]
         /\ semaphore' = Release(semaphore, outcome)
    /\ next_uuid' = next_uuid + 1
    /\ task_pc' = [task_pc EXCEPT ![i] = "finished"]
    /\ finished' = Append(finished, i)
    /\ task_backoffs' = [task_backoffs EXCEPT ![i] = 0]
    /\ UNCHANGED <<max_concurrent, n_requests, batch_response, orchVars, engineVars, creditVars>>

\* inside self.generate, a failed attempt with attempts left: the pipeline awaits
\* asyncio.sleep(delay) (lines 779-784), still inside async with semaphore
StartBackoff(i) ==
    /\ batch_response = NoResponse
    /\ i \in 1..n_requests
    /\ task_pc[i] = "running"
    /\ ~EventLoopBlocked(task_pc)
    /\ task_backoffs[i] < SleepBudget
    /\ task_pc' = [task_pc EXCEPT ![i] = "backoff"]
    /\ UNCHANGED <<max_concurrent, n_requests, semaphore, task_backoffs, task_result,
                   generate_outcome, finished, next_uuid, batch_response,
                   orchVars, engineVars, creditVars>>

\* the delay is over and the pipeline goes on with its next attempt
EndBackoff(i) ==
    /\ batch_response = NoResponse
    /\ i \in 1..n_requests
    /\ task_pc[i] = "backoff"
    /\ task_pc' = [task_pc EXCEPT ![i] = "running"]
    /\ task_backoffs' = [task_backoffs EXCEPT ![i] = task_backoffs[i] + 1]
    /\ UNCHANGED <<max_concurrent, n_requests, semaphore, task_result,
                   generate_outcome, finished, next_uuid, batch_response,
                   orchVars, engineVars, creditVars>>

\* asyncio.gather(..., return_exceptions=False) returns once every task has, or
\* raises the first exception a task lets out; then the counts (lines 497-518)
BatchReturn ==
    /\ batch_response = NoResponse
    /\ IF \E i \in 1..n_requests : task_result[i].kind = "raised"
       THEN batch_response' = [success |-> "raised"]
       ELSE /\ \A i \in 1..n_requests : task_pc[i] = "finished"
            /\ batch_response' =
                 BatchResponse(GatherResults(task_result, finished), n_requests)
    /\ UNCHANGED <<max_concurrent, n_requests, semaphore, task_pc, task_backoffs,
                   task_result, generate_outcome, finished, next_uuid,
                   orchVars, engineVars, creditVars>>

NextBatch ==
    \/ \E i \in 1..n_requests : Acquire(i)
    \/ \E i \in 1..n_requests : GenerateReturns(i)
    \/ \E i \in 1..n_requests : StartBackoff(i)
    \/ \E i \in 1..n_requests : EndBackoff(i)
    \/ BatchReturn

SpecBatch == InitBatch /\ [][NextBatch]_vars

\* the event loop runs every task that is ready: a task that can take a
\* permit takes it, every awaited backend call returns and every sleep ends
SpecBatchFair ==
    /\ InitBatch
    /\ [][NextBatch]_vars
    /\ \A i \in 1..MaxBatch : WF_vars(Acquire(i) \/ GenerateReturns(i) \/ EndBackoff(i))
    /\ WF_vars(BatchReturn)

-----------------------------------------------------------------------------
(* The aspect-ratio engine called on its own: select_source_ratio,          *)
(* get_aspect_ratio_strategy and calculate_crop_box applied to one target.   *)

\* largest width and height term of the target ratios explored
MaxRatioTerm == 9

\* largest side of the small source images explored
MaxSide == 3

\* str(n) for n >= 0
RECURSIVE IntToStr(_)
IntToStr(n) ==
    IF n < 10 THEN CharAt(DigitChars, n + 1)
    ELSE IntToStr(n \div 10) \o CharAt(DigitChars, (n % 10) + 1)

\* the string "w:h"
RatioStr(w, h) == IntToStr(w) \o ":" \o IntToStr(h)

\* ratios of positive integers beyond the small terms: those of the tests and
\* near-square ones
ExtraTargets ==
    { "21:9", "9:21", "16:9", "9:16", "100:101", "201:200", "101:100", "32:18" }

\* strings that are not ratios of positive integers: a zero or negative term, a
\* missing or extra separator, a part that is not a number
MalformedTargets ==
    { "0:5", "5:0", "-2:7", "-3:-5", "7", "16-9", "a:b", "16:9:1", "" }

Targets ==
    {RatioStr(w, h) : w, h \in 1..MaxRatioTerm} \cup ExtraTargets \cup MalformedTargets

\* img.size of the image handed to crop_image_to_aspect_ratio
SourceSizes ==
    ((1..MaxSide) \X (1..MaxSide))
        \cup {<<1600, 900>>, <<1024, 1024>>, <<576, 1024>>,
               <<101, 100>>, <<100, 150>>, <<266, 200>>}

InitEngine ==
    /\ InitOrchIdle
    /\ InitBatchIdle
    /\ InitCreditsIdle
    /\ engine_pc = "input"
    /\ engine_target \in Targets
    /\ selected = NoSelection
    /\ strategy_result = NoStrategy
    /\ crop_args = NoCropArgs
    /\ crop_box = NoCropBox

SelectSourceRatio ==
    /\ engine_pc = "input"
    /\ selected' = select_source_ratio(engine_target)
    /\ engine_pc' = "selected"
    /\ UNCHANGED <<engine_target, strategy_result, crop_args, crop_box, orchVars, batchVars, creditVars>>

GetStrategy ==
    /\ engine_pc = "selected"
    /\ strategy_result' = get_aspect_ratio_strategy(engine_target)
    /\ engine_pc' = "planned"
    /\ UNCHANGED <<engine_target, selected, crop_args, crop_box, orchVars, batchVars, creditVars>>

\* crop_image_to_aspect_ratio, lines 218-225: parse the target, then the crop box
CalculateCropBox ==
    /\ engine_pc = "planned"
    /\ \E source_size \in SourceSizes, anchor \in Anchors :
         LET parsed == parse_aspect_ratio(engine_target)
         IN  IF ~parsed.ok
             THEN /\ crop_args' = NoCropArgs
                  /\ crop_box' = [exc |-> "ValueError", box |-> <<0, 0, 0, 0>>]
             ELSE /\ crop_args' = [source_size |-> source_size,
                                   target_ratio |-> parsed.ratio, anchor |-> anchor]
                  /\ crop_box' = calculate_crop_box(source_size, parsed.ratio, anchor)
    /\ engine_pc' = "cropped"
    /\ UNCHANGED <<engine_target, selected, strategy_result, orchVars, batchVars, creditVars>>

NextEngine ==
    \/ SelectSourceRatio
    \/ GetStrategy
    \/ CalculateCropBox

SpecEngine == InitEngine /\ [][NextEngine]_vars

-----------------------------------------------------------------------------
(* LayoutGenerationService.generate and the credits of one presentation
   (src/src/services/layout_generation_service.py, credits_service.py) *)

\* requests in flight on the presentation
MaxLayoutRequests == 2

\* largest allocation of the presentation
MaxTotalCredits == 4

DEFAULT_CREDITS_PER_PRESENTATION == 100

Qualities == {"draft", "standard", "high", "ultra"}

\* QUALITY_CREDITS.get(request.config.quality, 2)
QUALITY_CREDITS(quality) ==
    CASE quality = "draft"    -> 1
      [] quality = "standard" -> 2
      [] quality = "high"     -> 4
      [] quality = "ultra"    -> 8
      [] OTHER                -> 2

\* how a call to the database ends
DbOutcomes == {"ok", "error"}

\* get_credits: the record of the presentation, or the default allocation when
\* the database raises ("fail open for now")
get_credits(total, used, db) ==
    IF db = "ok"
    THEN [total_credits |-> total, used_credits |-> used, remaining_credits |-> total - used]
    ELSE [total_credits |-> DEFAULT_CREDITS_PER_PRESENTATION, used_credits |-> 0,
          remaining_credits |-> DEFAULT_CREDITS_PER_PRESENTATION]

get_remaining_credits(total, used, db) == get_credits(total, used, db).remaining_credits

\* deduct_credits: whether it returned True, and used_credits of the record after it
deduct_credits(total, used, amount, db_read, db_write) ==
    LET credits == get_credits(total, used, db_read)
        new_used == credits.used_credits + amount
    IN  IF credits.remaining_credits < amount
        THEN [ok |-> FALSE, used_credits |-> used]
        ELSE IF db_write = "error"
        THEN [ok |-> FALSE, used_credits |-> used]
        ELSE [ok |-> TRUE, used_credits |-> new_used]

LayoutRequests == DOMAIN layout_pc

\* _error_response(code, ...): no usage reported
LayoutError(code) ==
    [success |-> FALSE, code |-> code, creditsUsed |-> 0, creditsRemaining |-> 0]

\* LayoutImageGenerateResponse(success=True, ...) with its LayoutImageUsage
LayoutSuccess(credits_required, credits_remaining) ==
    [success |-> TRUE, code |-> "", creditsUsed |-> credits_required,
     creditsRemaining |-> credits_remaining]

NoLayoutResponse == LayoutError("")

\* requests on one presentation whose record holds total_credits and used_credits
InitCredits ==
    /\ InitOrchIdle
    /\ InitBatchIdle
    /\ InitEngineIdle
    /\ enable_credits \in BOOLEAN
    /\ total_credits \in 1..MaxTotalCredits
    /\ used_credits \in 0..total_credits
    /\ \E n \in 1..MaxLayoutRequests :
          /\ layout_pc = [i \in 1..n |-> "start"]
          /\ layout_quality \in [1..n -> Qualities]
          /\ layout_response = [i \in 1..n |-> NoLayoutResponse]
          /\ layout_deducted = [i \in 1..n |-> 0]
    /\ db_failed = FALSE

\* Step 1 (lines 121-135): the balance is read and compared with the cost; then
\* Steps 2 and 3 up to the await of vertex_ai.generate_image
CheckCredits(i) ==
    /\ layout_pc[i] = "start"
    /\ LET credits_required == QUALITY_CREDITS(layout_quality[i])
       IN  IF ~enable_credits
           THEN /\ layout_pc' = [layout_pc EXCEPT ![i] = "generating"]
                /\ UNCHANGED <<layout_response, db_failed>>
           ELSE \E db \in DbOutcomes :
                  LET remaining == get_remaining_credits(total_credits, used_credits, db)
                  IN  /\ db_failed' = (db_failed \/ db = "error")
                      /\ IF remaining < credits_required
                         THEN /\ layout_pc' = [layout_pc EXCEPT ![i] = "done"]
                              /\ layout_response' = [layout_response EXCEPT
                                                        ![i] = LayoutError("INSUFFICIENT_CREDITS")]
                         ELSE /\ layout_pc' = [layout_pc EXCEPT ![i] = "generating"]
                              /\ UNCHANGED layout_response
    /\ UNCHANGED <<enable_credits, total_credits, used_credits, layout_quality,
                   layout_deducted, orchVars, batchVars, engineVars>>

\* Steps 4 to 9, which run without an await once generate_image has answered:
\* the failure returns (no credits charged), crop, thumbnail and upload, then
\* deduct_credits, whose result is not looked at, get_remaining_credits and the
\* success response (lines 189-375); an exception gives INTERNAL_ERROR
LayoutGenerateImage(i) ==
    /\ layout_pc[i] = "generating"
    /\ layout_pc' = [layout_pc EXCEPT ![i] = "done"]
    /\ \E generated \in {"success", "failure", "raise"}, uploaded \in {"success", "failure"},
          db_read \in DbOutcomes, db_write \in DbOutcomes, db_balance \in DbOutcomes :
         LET credits_required == QUALITY_CREDITS(layout_quality[i])
             deducted == deduct_credits(total_credits, used_credits, credits_required,
                                        db_read, db_write)
             credits_remaining ==
                 get_remaining_credits(total_credits, deducted.used_credits, db_balance)
         IN  IF generated = "failure"
             THEN /\ layout_response' = [layout_response EXCEPT
                                           ![i] = LayoutError("GENERATION_FAILED")]
                  /\ UNCHANGED <<used_credits, layout_deducted, db_failed>>
             ELSE IF generated = "raise"
             THEN /\ layout_response' = [layout_response EXCEPT
                                           ![i] = LayoutError("INTERNAL_ERROR")]
                  /\ UNCHANGED <<used_credits, layout_deducted, db_failed>>
             ELSE IF uploaded = "failure"
             THEN /\ layout_response' = [layout_response EXCEPT
                                           ![i] = LayoutError("STORAGE_ERROR")]
                  /\ UNCHANGED <<used_credits, layout_deducted, db_failed>>
             ELSE IF ~enable_credits
             THEN /\ layout_response' = [layout_response EXCEPT
                                           ![i] = LayoutSuccess(credits_required, 0)]
                  /\ UNCHANGED <<used_credits, layout_deducted, db_failed>>
             ELSE /\ used_credits' = deducted.used_credits
                  /\ layout_deducted' = [layout_deducted EXCEPT
                                           ![i] = deducted.used_credits - used_credits]
                  /\ db_failed' = (db_failed \/ "error" \in {db_read, db_write, db_balance})
                  /\ layout_response' = [layout_response EXCEPT
                                           ![i] = LayoutSuccess(credits_required,
                                                                credits_remaining)]
    /\ UNCHANGED <<enable_credits, total_credits, layout_quality,
                   orchVars, batchVars, engineVars>>

NextCredits ==
    \/ \E i \in LayoutRequests : CheckCredits(i)
    \/ \E i \in LayoutRequests : LayoutGenerateImage(i)

SpecCredits == InitCredits /\ [][NextCredits]_vars

-----------------------------------------------------------------------------
(* Properties of the fallback / retry orchestrator (specification Spec) *)

\* positions of trace holding a generate_image call
GenCalls == {k \in 1..Len(trace) : trace[k].call = "generate_image"}

\* position in chain of a generator name
ChainIndex(name) == CHOOSE g \in 1..Len(chain) : chain[g] = name

\* the generator has been called, and none of its calls succeeded
FailedBefore(g, k) ==
    /\ \E j \in GenCalls : j < k /\ trace[j].generator = chain[g]
    /\ \A j \in GenCalls : trace[j].generator = chain[g] => (j < k /\ trace[j].result # "success")

\* C1: generators are attempted strictly in priority order: a generator is called
\* only after every generator before it in the chain has been called and failed,
\* nothing is called after a successful call, and the cache-fallback lookup comes
\* only after every generator of the chain has failed.
C1_PriorityOrder ==
    /\ \A k \in GenCalls :
         /\ \A h \in 1..(ChainIndex(trace[k].generator) - 1) : FailedBefore(h, k)
         /\ \A j \in GenCalls : j < k => trace[j].result # "success"
    /\ \A k \in 1..Len(trace) :
         trace[k].call = "find_similar_image" =>
             \A g \in 1..Len(chain) : FailedBefore(g, k)

\* a three-generator chain was walked to its end and the cache fallback looked up
C1_Witness ==
    /\ Len(chain) = 3
    /\ \E k \in 1..Len(trace) : trace[k].call = "find_similar_image"
    /\ Len(attempted) = 3

\* a returned error that matches none of the retryable substrings
NonRetryableFailure(k) ==
    /\ trace[k].call = "generate_image"
    /\ trace[k].result = "failure"
    /\ ~RetryableOf[trace[k].error]

\* C2: after a failed attempt whose error message matches no retryable substring,
\* the same generator is neither called again nor slept for: the next thing the
\* orchestrator does belongs to the next generator (or the cache fallback), so a
\* non-retryable failure on attempt 0 leaves exactly one call of that generator.
C2_NonRetryableAborts ==
    \A k \in 1..Len(trace) :
        NonRetryableFailure(k) =>
            /\ \A j \in (k + 1)..Len(trace) : trace[j].generator # trace[k].generator
            /\ (pc \in {"generate", "sleep"} => chain[gen] # trace[k].generator)
            /\ (trace[k].attempt = 0 =>
                   Cardinality({j \in GenCalls : trace[j].generator = trace[k].generator}) = 1)

\* the primary, with a retry budget of 2, failed once with "content policy" and the
\* first fallback was called next
C2_Witness ==
    /\ max_retries = 2
    /\ Len(trace) >= 2
    /\ trace[1].call = "generate_image" /\ trace[1].generator = chain[1]
    /\ trace[1].error = "Gemini error: violates content policy"
    /\ trace[2].call = "generate_image" /\ trace[2].generator = chain[2]

\* the retry budget the claim gives each generator
ClaimedBudget(g) == IF g = 1 THEN max_retries ELSE 1

\* what the orchestrator did with chain[g]: its calls and sleeps, in order, each
\* with its attempt index and, for a sleep, its delay
EventsOf(g) ==
    LET Mine(e) == e.generator = chain[g]
        own == SelectSeq(trace, Mine)
    IN  [k \in 1..Len(own) |->
            <<own[k].call, own[k].attempt,
              IF own[k].call = "sleep" THEN own[k].arg ELSE 0>>]

RECURSIVE Pow2(_)
Pow2(n) == IF n = 0 THEN 1 ELSE 2 * Pow2(n - 1)

\* attempt 0, delay 1*base, attempt 1, delay 2*base, ..., attempt budget
FullRetrySchedule(budget) ==
    [k \in 1..(2 * budget + 1) |->
        IF k % 2 = 1
        THEN <<"generate_image", (k - 1) \div 2, 0>>
        ELSE <<"sleep", (k \div 2) - 1, Pow2((k \div 2) - 1) * RetryDelayBase>>]

AllRetryableFailures(g) ==
    \A k \in GenCalls :
        trace[k].generator = chain[g] => (trace[k].result = "failure" /\ RetryableOf[trace[k].error])

\* C3: a generator is never called more than budget+1 times (budget: max_retries
\* for the primary, 1 for a fallback); when all its attempts fail with a retryable
\* error it is called exactly budget+1 times, attempt i < budget being followed by
\* a delay of 2^i * base and the last attempt by no delay.
C3_RetryBudgetAndBackoff ==
    \A g \in 1..Len(chain) :
        /\ Cardinality({k \in GenCalls : trace[k].generator = chain[g]}) <= ClaimedBudget(g) + 1
        /\ (Len(attempted) >= g /\ AllRetryableFailures(g)) =>
               EventsOf(g) = FullRetrySchedule(ClaimedBudget(g))

\* the primary used its whole budget of 2 on retryable errors, and so did a fallback
C3_Witness ==
    /\ max_retries = 2
    /\ Len(attempted) >= 2
    /\ AllRetryableFailures(1) /\ AllRetryableFailures(2)
    /\ Len(EventsOf(1)) = 5 /\ Len(EventsOf(2)) = 3

\* positions of trace holding the relaxed-threshold lookup
FallbackLookups == {k \in 1..Len(trace) : trace[k].call = "find_similar_image"}

\* every generator failed: generate is past _generate_with_fallback with a failure
AllFailedReported == pc = "done" /\ response.source = "failed"

\* C4 as stated: whenever every generator has failed, find_similar_image is called,
\* with the 0.7 threshold, before the request is reported as failed
C4_Original ==
    AllFailedReported =>
        /\ FallbackLookups # {}
        /\ \A k \in FallbackLookups : trace[k].arg = 70 /\ trace[k].arg < 85

\* C4 amended: when every generator has failed, find_similar_image is called before
\* the failure is reported exactly when the semantic cache is enabled and the
\* request's metadata has topics, visual_style and slide_type; every such call
\* carries the threshold 0.7, lower than the 0.85 of the pre-generation check_cache.
C4_CacheFallbackWhenUsable ==
    /\ \A k \in FallbackLookups : trace[k].arg = 70
    /\ \A k \in 1..Len(trace) :
         trace[k].call = "check_cache" => (trace[k].arg = 85 /\ 70 < trace[k].arg)
    /\ (pc = "done" /\ response.source \in {"failed", "semantic_cache_fallback"}) =>
           /\ Cardinality(FallbackLookups) = (IF CacheUsable(request) THEN 1 ELSE 0)
           /\ \A k \in FallbackLookups : k = Len(trace)

\* all three generators failed, the relaxed lookup missed and the failure was reported
C4_Witness ==
    /\ AllFailedReported
    /\ Len(chain) = 3
    /\ FallbackLookups # {}
    /\ \E k \in 1..Len(trace) : trace[k].call = "check_cache"

\* C5: no exception leaves generate: whatever the collaborators answer or raise,
\* generate is at one of its own positions (never left by an exception), and it
\* ends exactly by returning an ImageGenerationResponse with success true or false.
C5_NoExceptionEscapes ==
    /\ pc \in {"check_cache", "strategy", "generate", "sleep", "cache_fallback",
               "postprocess", "store_cache", "done"}
    /\ (pc = "done" <=> response # NoResponse)
    /\ (pc = "done" => response.success \in BOOLEAN)
    /\ (pc \in {"generate", "sleep"} => gen \in 1..Len(chain))

\* a collaborator raised after a successful generation and generate answered
\* with success = false
C5_Witness ==
    /\ pc = "done"
    /\ response.source = "exception"
    /\ generation_result.success
    /\ response.success = FALSE

\* the generate_image calls made to chain[g]
CallsTo(g) == {k \in GenCalls : trace[k].generator = chain[g]}

\* C11: on every successful result of _generate_with_fallback, generators_attempted
\* is the prefix of the chain up to and including the generator that succeeded,
\* generator_used is its last element, fallback_used holds exactly when that
\* generator is not the first of the chain, and every generator listed before the
\* last one was called and failed.
C11_SuccessMetadata ==
    generation_result.success =>
        LET names == generation_result.generators_attempted
            g == Len(names)
        IN  /\ g \in 1..Len(chain)
            /\ names = SubSeq(chain, 1, g)
            /\ generation_result.generator_used = names[g]
            /\ \E k \in CallsTo(g) :
                 /\ trace[k].result = "success"
                 /\ \A j \in GenCalls : j <= k
            /\ (generation_result.fallback_used <=> generation_result.generator_used # chain[1])
            /\ \A h \in 1..(g - 1) :
                 /\ CallsTo(h) # {}
                 /\ \A k \in CallsTo(h) : trace[k].result # "success"

\* the primary failed three times with a retryable error (max_retries = 2) and the
\* first fallback succeeded on its first attempt
C11_Witness ==
    /\ max_retries = 2
    /\ generation_result.success
    /\ generation_result.fallback_used
    /\ generation_result.generators_attempted = <<chain[1], chain[2]>>
    /\ Cardinality(CallsTo(1)) = 3
    /\ Cardinality(CallsTo(2)) = 1

\* the relaxed-threshold lookup returned a match
FallbackLookupHit == \E k \in FallbackLookups : trace[k].result = "hit"

C13_TerminalFailure ==
    (pc = "done" /\ ~generation_result.success /\ response.source \notin {"semantic_cache", "exception"}
        /\ ~FallbackLookupHit) =>
        /\ response.success = FALSE
        /\ response.source = "failed"
        /\ response.generators_attempted = chain
        /\ (GenCalls # {} =>
               LET last == CHOOSE k \in GenCalls : \A j \in GenCalls : j <= k
               IN  /\ trace[last].generator = chain[Len(chain)]
                   /\ trace[last].result # "success"
                   /\ response.error = "All generators failed. Last error: " \o trace[last].error)

\* three generators failed, the last attempt of the last one with the 503 message,
\* the lookup missed and the failure was reported
C13_Witness ==
    /\ pc = "done"
    /\ response.source = "failed"
    /\ response.generators_attempted = <<"gemini", "imagen-fast", "imagen-regular">>
    /\ \E k \in FallbackLookups : trace[k].result = "miss"
    /\ response.error = "All generators failed. Last error: Gemini error: 503 Service Unavailable"

-----------------------------------------------------------------------------
(* Properties of generate_batch (specification SpecBatch) *)

Running == {i \in 1..n_requests : task_pc[i] \in {"running", "backoff"}}

BatchReturned == batch_response # NoResponse

\* C6: the number of pipelines between acquiring and releasing the limiter
\* never exceeds max_concurrent.
C6_BoundedConcurrency == Cardinality(Running) <= max_concurrent

\* the limiter is full while another item still waits for a permit
C6_Witness ==
    /\ Cardinality(Running) = max_concurrent
    /\ \E i \in 1..n_requests : task_pc[i] = "waiting"

\* C7: a failing item never aborts or cancels a sibling: no task lets an exception
\* out, generate_batch returns only when every item has run to completion, with
\* one result per item, and the items whose pipeline failed or raised are the
\* ones with success = false.
C7_FailuresStayPerItem ==
    /\ \A i \in 1..n_requests :
         /\ task_result[i].kind \in {"pending", "returned"}
         /\ task_pc[i] \in {"waiting", "running", "backoff", "finished"}
    /\ BatchReturned =>
         /\ batch_response.success \in BOOLEAN
         /\ Len(batch_response.results) = n_requests
         /\ \A i \in 1..n_requests :
              /\ task_pc[i] = "finished"
              /\ generate_outcome[i] # "pending"
              /\ batch_response.results[i].success = (generate_outcome[i] = "returned_success")

\* a batch of three returned with one item raising, one failing and one succeeding
C7_Witness ==
    /\ BatchReturned
    /\ n_requests = 3
    /\ \E i, j, k \in 1..n_requests :
         /\ generate_outcome[i] = "raised"
         /\ generate_outcome[j] = "returned_failure"
         /\ generate_outcome[k] = "returned_success"

\* C8: results[i] is the outcome of requests[i], whatever the order in which the
\* pipelines started and completed.
C8_ResultsInInputOrder ==
    BatchReturned =>
        /\ Len(batch_response.results) = n_requests
        /\ \A i \in 1..n_requests :
             /\ batch_response.results[i] = task_result[i].value
             /\ (batch_response.results[i].success =>
                    batch_response.results[i].prompt = Prompt(i))

\* the batch returned after its items completed in the reverse of the input order
C8_Witness ==
    /\ BatchReturned
    /\ n_requests = 3
    /\ finished = <<3, 2, 1>>
    /\ \A i \in 1..n_requests : batch_response.results[i].success

\* C9: free permits plus pipelines holding a permit always equal max_concurrent,
\* whichever way a pipeline ended, and all permits are free when the batch returns.
C9_PermitsConserved ==
    /\ semaphore + Cardinality(Running) = max_concurrent
    /\ semaphore \in 0..max_concurrent
    /\ (BatchReturned => semaphore = max_concurrent)

\* a pipeline ended by an exception and its permit is free again
C9_Witness ==
    /\ \E i \in 1..n_requests : generate_outcome[i] = "raised"
    /\ \E i \in 1..n_requests : task_pc[i] = "running"
    /\ semaphore + Cardinality(Running) = max_concurrent

\* C10: successful + failed = total_requests = len(results), successful counts
\* the results with success = true, and the batch's success flag is true exactly
\* when failed = 0; a partial failure is returned, never raised.
C10_BatchCounts ==
    BatchReturned =>
        LET r == batch_response
            ok == {i \in 1..Len(r.results) : r.results[i].success}
        IN  /\ r.success \in BOOLEAN
            /\ r.successful + r.failed = r.total_requests
            /\ r.total_requests = Len(r.results)
            /\ r.total_requests = n_requests
            /\ r.successful = Cardinality(ok)
            /\ (r.success <=> r.failed = 0)

\* a partial failure: some items succeeded, some failed, and the batch says so
C10_Witness ==
    /\ BatchReturned
    /\ batch_response.successful >= 1
    /\ batch_response.failed >= 1
    /\ batch_response.success = FALSE

-----------------------------------------------------------------------------
(* Properties of the aspect-ratio engine (specification SpecEngine) *)

\* the supported set of the claims, each ratio with its terms
SupportedSet == {"1:1", "3:4", "4:3", "9:16", "16:9"}

TermsOf(key) ==
    CASE key = "1:1"  -> <<1, 1>>
      [] key = "3:4"  -> <<3, 4>>
      [] key = "4:3"  -> <<4, 3>>
      [] key = "9:16" -> <<9, 16>>
      [] key = "16:9" -> <<16, 9>>

\* select_source_ratio and get_aspect_ratio_strategy have both been applied
Planned == engine_pc \in {"planned", "cropped"}

\* the target split on ':' into two integers, as the strategy reports it
TargetParsed == Planned /\ strategy_result.exc # "ValueError"

TargetTerms == strategy_result.target_ratio

\* the target is a ratio of two positive integers
TargetPositive == TargetParsed /\ TargetTerms[1] > 0 /\ TargetTerms[2] > 0

\* the target has a decimal value w/h; T is that value with a positive denominator
TargetHasDecimal == TargetParsed /\ TargetTerms[2] # 0

T == IF TargetTerms[2] < 0 THEN <<0 - TargetTerms[1], 0 - TargetTerms[2]>> ELSE TargetTerms

\* comparisons of a supported ratio c (positive terms) with the decimal value of T
BelowOrAt(c) == c[1] * T[2] <= T[1] * c[2]

AboveOrAt(c) == c[1] * T[2] >= T[1] * c[2]

Distance(c) ==
    LET d == c[1] * T[2] - T[1] * c[2] IN IF d < 0 THEN 0 - d ELSE d

\* |c - T| <= |b - T|
NoFartherThan(c, b) == Distance(c) * b[2] <= Distance(b) * c[2]

TargetPortrait == T[1] < T[2]

TargetLandscape == T[1] > T[2]

\* |decimal - 1| < 0.01
TargetSquare ==
    LET d == T[1] - T[2] IN 100 * (IF d < 0 THEN 0 - d ELSE d) < T[2]

\* the containment rule of the claims
Containing ==
    {c \in SupportedSet : IF TargetPortrait THEN BelowOrAt(TermsOf(c)) ELSE AboveOrAt(TermsOf(c))}

C15_Original ==
    (TargetHasDecimal /\ engine_target \notin SupportedSet /\ TargetSquare) =>
        (selected.exc = "" /\ selected.value = "1:1")

\* C16 as stated: a target no supported ratio contains is given 16:9.
C16_Original ==
    (TargetHasDecimal /\ engine_target \notin SupportedSet /\ Containing = {}) =>
        (selected.exc = "" /\ selected.value = "16:9")

\* C16 amended: a target that no supported ratio contains is a portrait target
\* narrower than 9:16 or a landscape target wider than 16:9; select_source_ratio
\* does not fail on it and returns the extreme ratio of the target's orientation,
\* 9:16 for the portrait one and 16:9 for the landscape one.
C16_DefaultByOrientation ==
    (TargetHasDecimal /\ engine_target \notin SupportedSet /\ Containing = {}) =>
        /\ selected.exc = ""
        /\ (TargetPortrait => (~BelowOrAt(<<9, 16>>) /\ selected.value = "9:16"))
        /\ (~TargetPortrait => (~AboveOrAt(<<16, 9>>) /\ selected.value = "16:9"))

\* 2:7, narrower than 9:16, was given 9:16
C16_Witness ==
    /\ Planned
    /\ engine_target = "2:7"
    /\ Containing = {}
    /\ selected.value = "9:16"

\* C17 as stated: a portrait target strictly between 9:16 and 3:4 is given 3:4, a
\* landscape target strictly between 4:3 and 16:9 is given 4:3.
C17_Original ==
    TargetPositive =>
        /\ ((~AboveOrAt(<<9, 16>>) /\ ~BelowOrAt(<<3, 4>>)) => selected.value = "3:4")
        /\ ((~AboveOrAt(<<4, 3>>) /\ ~BelowOrAt(<<16, 9>>)) => selected.value = "4:3")

\* C18: get_aspect_ratio_strategy has requires_crop = false exactly when the target
\* string is in the supported set, and then source_ratio is the target itself, as
\* is the result of select_source_ratio; for every other target of two positive
\* integers requires_crop = true and source_ratio is a supported ratio, so it
\* differs from the target.
C18_CropExactlyWhenUnsupported ==
    Planned =>
        /\ engine_target \in SupportedSet =>
               /\ strategy_result.exc = ""
               /\ ~strategy_result.requires_crop
               /\ strategy_result.source_ratio = engine_target
               /\ selected = [exc |-> "", value |-> engine_target]
        /\ (TargetPositive /\ engine_target \notin SupportedSet) =>
               /\ strategy_result.exc = ""
               /\ strategy_result.requires_crop
               /\ strategy_result.source_ratio \in SupportedSet
               /\ strategy_result.source_ratio # engine_target
        /\ strategy_result.exc = "" =>
               (strategy_result.requires_crop <=> engine_target \notin SupportedSet)

\* 32:18 has the decimal of 16:9 but is not in the set: cropped from 16:9
C18_Witness ==
    /\ Planned
    /\ engine_target = "32:18"
    /\ strategy_result.requires_crop
    /\ strategy_result.source_ratio = "16:9"

\* C19: for a target outside the supported set, a portrait target (decimal < 1) is
\* given 9:16 or 3:4, a landscape target (decimal > 1) is given 16:9 or 4:3, and
\* 1:1 is never the source of a target whose decimal differs from 1.
C19_OrientationPreserved ==
    (Planned /\ TargetHasDecimal /\ engine_target \notin SupportedSet) =>
        /\ strategy_result.exc = ""
        /\ (TargetPortrait => strategy_result.source_ratio \in {"9:16", "3:4"})
        /\ (TargetLandscape => strategy_result.source_ratio \in {"16:9", "4:3"})
        /\ (T[1] # T[2] => strategy_result.source_ratio # "1:1")

\* 8:9, a portrait target close to square, was given the portrait 3:4
C19_Witness ==
    /\ Planned
    /\ engine_target = "8:9"
    /\ TargetPortrait
    /\ strategy_result.source_ratio = "3:4"

\* calculate_crop_box has been applied to a target of two positive integers
CroppedPositive ==
    /\ engine_pc = "cropped"
    /\ crop_box.exc # "ValueError"
    /\ crop_args.target_ratio[1] > 0 /\ crop_args.target_ratio[2] > 0

\* C20 as stated: for every source of at least 1 x 1, every target of positive
\* integers and every anchor, the box is non-empty and inside the source:
\* 0 <= left < right <= source_width and 0 <= top < bottom <= source_height.
C20_Original ==
    CroppedPositive =>
        LET left == crop_box.box[1]
            top == crop_box.box[2]
            right == crop_box.box[3]
            bottom == crop_box.box[4]
        IN  /\ crop_box.exc = ""
            /\ 0 <= left /\ left < right /\ right <= crop_args.source_size[1]
            /\ 0 <= top /\ top < bottom /\ bottom <= crop_args.source_size[2]

\* a crop that returned a box
Cropped == engine_pc = "cropped" /\ crop_box.exc = ""

BoxWidth == crop_box.box[3] - crop_box.box[1]

BoxHeight == crop_box.box[4] - crop_box.box[2]

\* C21: when the fitted width and the fitted height are both at least 100
\* pixels, the ratio of the box, (right - left) / (bottom - top), is within 1%
\* of the target W / H, for every anchor:
\* |BoxWidth / BoxHeight - W / H| <= (1 / 100) * (W / H).
C21_RatioWithinOnePercent ==
    (CroppedPositive /\ Cropped /\ BoxWidth >= 100 /\ BoxHeight >= 100) =>
        LET W == crop_args.target_ratio[1]
            H == crop_args.target_ratio[2]
        IN  100 * Abs(BoxWidth * H - W * BoxHeight) <= W * BoxHeight

\* a 266 x 200 source cropped to 7:3: the fitted 266 x 113 is not the exact
\* 266 x 114, and is still within 1%
C21_Witness ==
    /\ CroppedPositive /\ Cropped
    /\ crop_args.source_size = <<266, 200>>
    /\ crop_args.target_ratio = <<7, 3>>
    /\ BoxWidth = 266 /\ BoxHeight = 113

\* C22: the box is the largest of the target ratio in the source. It spans the
\* full source width, with the height of that width at the target ratio
\* rounded down, unless that height exceeds the source height; then it spans
\* the full source height, with the width of that height at the target ratio
\* rounded down. The rounding is that of the quotient of two doubles: at most
\* one below the exact floor, and only where the exact value is an integer.
C22_MaximalBox ==
    (CroppedPositive /\ Cropped) =>
        LET W == crop_args.target_ratio[1]
            H == crop_args.target_ratio[2]
            sw == crop_args.source_size[1]
            sh == crop_args.source_size[2]
            qh == (sw * H) \div W
            qw == (sh * W) \div H
        IN  \/ /\ BoxWidth = sw
               /\ BoxHeight <= sh
               /\ BoxHeight \in {qh, qh - 1}
               /\ (BoxHeight = qh - 1) => ((sw * H) % W = 0)
            \/ /\ BoxHeight = sh
               /\ qh > sh
               /\ BoxWidth \in {qw, qw - 1}
               /\ (BoxWidth = qw - 1) => ((sh * W) % H = 0)

\* a 1600 x 900 source cropped to 1:1: the height of the full width, 1600,
\* exceeds 900, and the box is 900 x 900
C22_Witness ==
    /\ CroppedPositive /\ Cropped
    /\ crop_args.source_size = <<1600, 900>>
    /\ crop_args.target_ratio = <<1, 1>>
    /\ BoxWidth = 900 /\ BoxHeight = 900

\* C23: the anchor pins an edge of the box to the same edge of the source:
\* top gives top = 0, bottom gives bottom = source height, left gives left = 0,
\* right gives right = source width.
C23_AnchorPinsEdge ==
    Cropped =>
        /\ (crop_args.anchor = "top") => (crop_box.box[2] = 0)
        /\ (crop_args.anchor = "bottom") => (crop_box.box[4] = crop_args.source_size[2])
        /\ (crop_args.anchor = "left") => (crop_box.box[1] = 0)
        /\ (crop_args.anchor = "right") => (crop_box.box[3] = crop_args.source_size[1])

\* a square source cropped to 16:9 from the bottom: the box ends at the bottom
\* edge and starts below the top edge
C23_Witness ==
    /\ Cropped
    /\ crop_args.source_size = <<1024, 1024>>
    /\ crop_args.target_ratio = <<16, 9>>
    /\ crop_args.anchor = "bottom"
    /\ crop_box.box = <<0, 448, 1024, 1024>>

EdgeAnchors == {"top", "bottom", "left", "right"}

\* C24: smart, and every anchor that is none of center, top, bottom, left and
\* right, gives the box that center gives for the same source and target, and
\* does not raise where center does not: the box is centred on both axes.
C24_OtherAnchorsAreCenter ==
    (engine_pc = "cropped" /\ crop_box.exc # "ValueError"
        /\ crop_args.anchor \notin EdgeAnchors) =>
        /\ crop_box = calculate_crop_box(crop_args.source_size, crop_args.target_ratio, "center")
        /\ CroppedPositive =>
              /\ crop_box.exc = ""
              /\ crop_box.box[1] = (crop_args.source_size[1] - BoxWidth) \div 2
              /\ crop_box.box[2] = (crop_args.source_size[2] - BoxHeight) \div 2

\* a 1600 x 900 source cropped to 1:1 with an anchor that names no edge
C24_Witness ==
    /\ Cropped
    /\ crop_args.source_size = <<1600, 900>>
    /\ crop_args.target_ratio = <<1, 1>>
    /\ crop_args.anchor = "middle"
    /\ crop_box.box = <<350, 0, 1250, 900>>

\* C25 as stated: parse_aspect_ratio fails with the invalid-format error for
\* every string that does not split on ':' into exactly two positive integers
\* (a missing or extra separator, a part that is not a number, a zero or
\* negative component), and returns (W, H) for every "W:H" of positive integers.
C25_Original ==
    Planned =>
        IF engine_target \in MalformedTargets
        THEN strategy_result.exc = "ValueError"
        ELSE /\ strategy_result.exc # "ValueError"
             /\ RatioStr(TargetTerms[1], TargetTerms[2]) = engine_target

Sleeps == {k \in 1..Len(trace) : trace[k].call = "sleep"}

\* inside the loops of _generate_with_fallback and _try_generator_with_retry
InFallbackLoop == pc \in {"generate", "sleep"}

\* _generate_with_fallback has returned
FallbackLoopLeft == pc \in {"postprocess", "cache_fallback", "store_cache", "done"}

GenerateCallsBounded ==
    /\ Cardinality(GenCalls) <= (max_retries + 1) + 2 * NumFallbacks
    /\ Cardinality(Sleeps) <= max_retries + NumFallbacks

\* C26: when every backend call eventually returns, _generate_with_fallback
\* always terminates, after at most (max_retries + 1) + 2 * (number of
\* fallbacks) generate calls and at most max_retries + (number of fallbacks)
\* backoff delays.
C26_TerminatesWithinBudget ==
    /\ []GenerateCallsBounded
    /\ InFallbackLoop ~> FallbackLoopLeft

\* a chain of three and max_retries = 2, every attempt failing with a retryable
\* error: 3 + 2 + 2 calls and 2 + 1 + 1 delays, then the loop is left
C26_Witness ==
    /\ FallbackLoopLeft
    /\ Len(chain) = 3 /\ max_retries = 2
    /\ Cardinality(GenCalls) = 7
    /\ Cardinality(Sleeps) = 4

\* generate_image raised at position k of the trace
RaisedAt(k) == trace[k].call = "generate_image" /\ trace[k].result = "raise"

BudgetOf(k) == RetryBudget(ChainIndex(trace[k].generator))

\* C28: an exception raised by generate_image is treated as retryable whatever
\* its message, which is never classified: it uses one attempt of the budget,
\* its message becomes the last error, and while attempts remain the loop goes
\* on with the backoff delay and the next attempt on the same generator; with
\* none left the generator is given up with that message as its error.
C28_ExceptionIsRetryable ==
    \A k \in 1..Len(trace) :
        RaisedAt(k) =>
            /\ trace[k].attempt <= BudgetOf(k)
            /\ (trace[k].attempt < BudgetOf(k)) =>
                  /\ (k = Len(trace)) => (pc = "sleep" /\ last_error = trace[k].error)
                  /\ (k + 1 <= Len(trace)) =>
                        /\ trace[k + 1].call = "sleep"
                        /\ trace[k + 1].generator = trace[k].generator
                        /\ trace[k + 1].arg = BackoffDelay(trace[k].attempt)
                  /\ (k + 2 <= Len(trace)) =>
                        /\ trace[k + 2].call = "generate_image"
                        /\ trace[k + 2].generator = trace[k].generator
                        /\ trace[k + 2].attempt = trace[k].attempt + 1
            /\ (trace[k].attempt = BudgetOf(k) /\ k = Len(trace)) =>
                  /\ pc \in {"generate", "cache_fallback", "done"}
                  /\ fb_last_error = trace[k].error

\* an exception whose message matches no retryable pattern, on the first
\* attempt, followed by the delay and a second attempt on the same generator
C28_Witness ==
    /\ Len(trace) >= 3
    /\ \E k \in 1..(Len(trace) - 2) :
          /\ RaisedAt(k)
          /\ ~RetryableOf[trace[k].error]
          /\ trace[k].attempt = 0
          /\ trace[k + 1].call = "sleep"
          /\ trace[k + 2].call = "generate_image"
          /\ trace[k + 2].generator = trace[k].generator
          /\ trace[k + 2].attempt = 1

\* C29: every generate_image call, on the primary and on every fallback, is
\* passed the source ratio of the plan, which is one of 1:1, 3:4, 4:3, 9:16 and
\* 16:9; a custom target ratio is never sent to a generator.
C29_OnlySupportedRatiosSent ==
    \A k \in GenCalls :
        /\ trace[k].arg = locals.source_ratio
        /\ trace[k].arg \in SupportedSet
        /\ (request.aspect_ratio \notin SupportedSet) =>
              (trace[k].arg # request.aspect_ratio /\ locals.requires_crop)

\* a request for 2:7: the primary and a fallback are both asked for 9:16
C29_Witness ==
    /\ request.aspect_ratio = "2:7"
    /\ \E j, k \in GenCalls :
          /\ trace[j].generator = chain[1] /\ trace[j].arg = "9:16"
          /\ ChainIndex(trace[k].generator) > 1 /\ trace[k].arg = "9:16"

InBackoff(i) == i \in 1..n_requests /\ task_pc[i] = "backoff"

\* while a pipeline sleeps in its backoff, a pipeline holding a permit can go on
\* and a waiting task can take a free permit
OthersCanStep ==
    \A i, j \in 1..MaxBatch :
        (InBackoff(i) /\ j \in 1..n_requests /\ j # i) =>
            /\ (task_pc[j] = "running") => ENABLED GenerateReturns(j)
            /\ (task_pc[j] = "backoff") => ENABLED EndBackoff(j)
            /\ (task_pc[j] = "waiting" /\ semaphore > 0) => ENABLED Acquire(j)

\* every item has taken a permit, run its pipeline and given the permit back
AllItemsFinished == \A i \in 1..n_requests : task_pc[i] = "finished"

\* C27: the retry backoff does not block the batch: while one pipeline is
\* suspended in its backoff every other pipeline holding a permit can still
\* take its steps, every item of the batch eventually acquires a permit and
\* completes, and generate_batch eventually returns.
C27_BackoffDoesNotBlock ==
    /\ []OthersCanStep
    /\ <>(AllItemsFinished /\ BatchReturned)

\* one pipeline sleeps in its backoff, a second one has completed meanwhile and
\* a third one has taken the permit it gave back
C27_Witness ==
    /\ n_requests = 3 /\ max_concurrent = 2
    /\ task_pc[1] = "backoff" /\ task_backoffs[1] = 0
    /\ task_pc[2] = "finished"
    /\ task_pc[3] = "running"

-----------------------------------------------------------------------------
(* Properties of the credits of a presentation (specification SpecCredits) *)

LayoutSucceeded(i) == layout_pc[i] = "done" /\ layout_response[i].success

LayoutFailed(i) == layout_pc[i] = "done" /\ ~layout_response[i].success

\* credits reported as used by the successful responses of requests 1..n
RECURSIVE ReportedUsed(_)
ReportedUsed(n) ==
    IF n = 0 THEN 0
    ELSE (IF LayoutSucceeded(n) THEN layout_response[n].creditsUsed ELSE 0)
         + ReportedUsed(n - 1)

\* C30 as stated: with credits enforced and a database that answers every
\* call, for any interleaving of generate requests on one presentation a
\* request is reported successful with creditsUsed = c only if c credits were
\* deducted from the presentation by it, the credits reported as used by the
\* successful responses never exceed the presentation's total allocation, and
\* a failed request deducts nothing.
C30_Original ==
    (enable_credits /\ ~db_failed) =>
        /\ \A i \in LayoutRequests :
              LayoutSucceeded(i) => layout_deducted[i] = layout_response[i].creditsUsed
        /\ ReportedUsed(Cardinality(LayoutRequests)) <= total_credits
        /\ \A i \in LayoutRequests : LayoutFailed(i) => layout_deducted[i] = 0

====
